---- MODULE Spec2Model ----
(***************************************************************************)
(* Model of pkg/awsclient/elb_helper.go: the classic-ELB helper methods of *)
(* awsClient.  Every method is one blocking round trip (two for            *)
(* CreateClassicELB) to the remote load-balancer service; the helper keeps *)
(* no state of its own, so the state of the model is the account held by   *)
(* the remote service plus the record of the most recent call.             *)
(***************************************************************************)
EXTENDS Integers, Sequences, FiniteSets, TLC

VARIABLES lbs, last

vars == <<lbs, last>>

(***************************************************************************)
(* Bounds and input domains                                                *)
(***************************************************************************)
MaxRefs == 2

Names == {"api-lb"}

Instances == {"i-a", "i-b"}

SubnetLists == {<<"subnet-a", "subnet-b">>}

ControlPlanePort == 6443

Ports == {ControlPlanePort, 8080}

RefLists == UNION {[1..n -> Instances] : n \in 0..MaxRefs}

(***************************************************************************)
(* Error values.  A Go error is nil, an awserr.Error carrying a code, or   *)
(* an error of any other dynamic type.                                     *)
(***************************************************************************)
Nil == [kind |-> "nil", code |-> ""]

AwsErr(code) == [kind |-> "awserr", code |-> code]

PlainErr == [kind |-> "error", code |-> "timeout"]

ErrCodeAccessPointNotFoundException == "LoadBalancerNotFound"

ErrCodeDuplicateAccessPointNameException == "DuplicateLoadBalancerName"

ErrCodeDuplicateListenerException == "DuplicateListener"

ErrCodeListenerNotFoundException == "ListenerNotFound"

ErrParamRequired == [kind |-> "awserr", code |-> "InvalidParameter"]

\* Faults the service or the transport may answer any request with.
TransientFaults == {AwsErr("Throttling"), PlainErr}

Faults == {Nil} \cup TransientFaults

EmptyString == <<>>

Sprintf(protocol, port, path) == <<protocol, ":", port, path>>

DNSName(name) == <<name, ".elb.amazonaws.com">>

Range(s) == {s[i] : i \in 1..Len(s)}

(***************************************************************************)
(* The remote service.  An account maps the names of its load balancers to *)
(* their descriptions.  Every request carries the answer of the            *)
(* environment: a fault, or Nil when the service processes the request;    *)
(* strict tells whether this provider reports a request that finds the     *)
(* account already in the requested state as a condition of its own.       *)
(***************************************************************************)
Reply(m, err) == [lbs |-> m, err |-> err]

Listener(port) ==
    [LoadBalancerPort |-> port, InstancePort |-> port,
     Protocol |-> "tcp", InstanceProtocol |-> "tcp"]

CreateLoadBalancer(m, i, fault) ==
    IF fault # Nil THEN [lbs |-> m, err |-> fault, DNSName |-> EmptyString]
    ELSE IF i.LoadBalancerName \in DOMAIN m
    THEN [lbs |-> m, err |-> AwsErr(ErrCodeDuplicateAccessPointNameException),
          DNSName |-> EmptyString]
    ELSE [lbs |-> [n \in DOMAIN m \cup {i.LoadBalancerName} |->
                     IF n = i.LoadBalancerName
                     THEN [DNSName |-> DNSName(n), Subnets |-> i.Subnets,
                           Listeners |-> Range(i.Listeners),
                           HealthCheck |-> <<>>, Instances |-> {}]
                     ELSE m[n]],
          err |-> Nil, DNSName |-> DNSName(i.LoadBalancerName)]

ConfigureHealthCheck(m, i, fault) ==
    IF fault # Nil THEN Reply(m, fault)
    ELSE IF i.LoadBalancerName \notin DOMAIN m
    THEN Reply(m, AwsErr(ErrCodeAccessPointNotFoundException))
    ELSE Reply([m EXCEPT ![i.LoadBalancerName].HealthCheck = <<i.HealthCheck>>], Nil)

CreateLoadBalancerListeners(m, i, fault, strict) ==
    IF fault # Nil THEN Reply(m, fault)
    ELSE IF i.LoadBalancerName \notin DOMAIN m
    THEN Reply(m, AwsErr(ErrCodeAccessPointNotFoundException))
    ELSE LET have == m[i.LoadBalancerName].Listeners
             want == Range(i.Listeners)
             conflict == \E w \in want : \E h \in have :
                            w.LoadBalancerPort = h.LoadBalancerPort /\ w # h
             duplicate == want \cap have # {}
         IN  IF conflict \/ (strict /\ duplicate)
             THEN Reply(m, AwsErr(ErrCodeDuplicateListenerException))
             ELSE Reply([m EXCEPT ![i.LoadBalancerName].Listeners = have \cup want], Nil)

DeleteLoadBalancerListeners(m, i, fault, strict) ==
    IF fault # Nil THEN Reply(m, fault)
    ELSE IF i.LoadBalancerName \notin DOMAIN m
    THEN Reply(m, AwsErr(ErrCodeAccessPointNotFoundException))
    ELSE LET have == m[i.LoadBalancerName].Listeners
             ports == Range(i.LoadBalancerPorts)
             absent == \E p \in ports : \A h \in have : h.LoadBalancerPort # p
         IN  IF strict /\ absent
             THEN Reply(m, AwsErr(ErrCodeListenerNotFoundException))
             ELSE Reply([m EXCEPT ![i.LoadBalancerName].Listeners =
                            {h \in have : h.LoadBalancerPort \notin ports}], Nil)

\* The request types require Instances: a nil slice is refused, an empty one is not.
RegisterInstancesWithLoadBalancer(m, i, fault) ==
    IF i.Instances.isNil THEN Reply(m, ErrParamRequired)
    ELSE IF fault # Nil THEN Reply(m, fault)
    ELSE IF i.LoadBalancerName \notin DOMAIN m
    THEN Reply(m, AwsErr(ErrCodeAccessPointNotFoundException))
    ELSE Reply([m EXCEPT ![i.LoadBalancerName].Instances =
                   @ \cup {x.InstanceId : x \in Range(i.Instances.items)}], Nil)

DeregisterInstancesWithLoadBalancer(m, i, fault) ==
    IF i.Instances.isNil THEN Reply(m, ErrParamRequired)
    ELSE IF fault # Nil THEN Reply(m, fault)
    ELSE IF i.LoadBalancerName \notin DOMAIN m
    THEN Reply(m, AwsErr(ErrCodeAccessPointNotFoundException))
    ELSE Reply([m EXCEPT ![i.LoadBalancerName].Instances =
                   @ \ {x.InstanceId : x \in Range(i.Instances.items)}], Nil)

\* On an error the output carries no description.
DescribeLoadBalancers(m, i, fault) ==
    IF fault # Nil THEN [err |-> fault, LoadBalancerDescriptions |-> <<>>]
    ELSE IF \E k \in 1..Len(i.LoadBalancerNames) : i.LoadBalancerNames[k] \notin DOMAIN m
    THEN [err |-> AwsErr(ErrCodeAccessPointNotFoundException),
          LoadBalancerDescriptions |-> <<>>]
    ELSE [err |-> Nil,
          LoadBalancerDescriptions |->
              [k \in 1..Len(i.LoadBalancerNames) |-> m[i.LoadBalancerNames[k]]]]

(***************************************************************************)
(* The helper methods.  Each yields the account after the call, what the   *)
(* method returns (found, dns, err; panic when it does not return) and the *)
(* remote requests it issued, in order, with their answers.                *)
(***************************************************************************)
Call(method, err) == [method |-> method, err |-> err]

Result(m, found, dns, err, calls) ==
    [lbs |-> m, found |-> found, dns |-> dns, err |-> err, panic |-> FALSE,
     calls |-> calls]

Panic(m, calls) ==
    [lbs |-> m, found |-> FALSE, dns |-> EmptyString, err |-> Nil, panic |-> TRUE,
     calls |-> calls]

addHealthCheck(m, loadBalancerName, protocol, path, port, env) ==
    LET i == [HealthCheck |-> [HealthyThreshold |-> 2, Interval |-> 30,
                               Target |-> Sprintf(protocol, port, path),
                               Timeout |-> 3, UnhealthyThreshold |-> 2],
              LoadBalancerName |-> loadBalancerName]
        r == ConfigureHealthCheck(m, i, env.second)
    IN  Result(r.lbs, FALSE, EmptyString, r.err, <<Call("ConfigureHealthCheck", r.err)>>)

CreateClassicELB(m, elbName, subnets, listenerPort, env) ==
    LET i == [LoadBalancerName |-> elbName, Subnets |-> subnets,
              Listeners |-> <<Listener(listenerPort)>>]
        o == CreateLoadBalancer(m, i, env.first)
        c1 == <<Call("CreateLoadBalancer", o.err)>>
    IN  IF o.err # Nil THEN Result(o.lbs, FALSE, EmptyString, o.err, c1)
        ELSE LET h == addHealthCheck(o.lbs, elbName, "HTTP", "/", 6443, env)
             IN  IF h.err # Nil
                 THEN Result(h.lbs, FALSE, EmptyString, h.err, c1 \o h.calls)
                 ELSE Result(h.lbs, FALSE, o.DNSName, Nil, c1 \o h.calls)

\* Mutants: the delete request names another port, or every port in use.
removeListenersFromELBWrongPort(m, elbName, env) ==
    LET i == [LoadBalancerName |-> elbName, LoadBalancerPorts |-> <<443>>]
        r == DeleteLoadBalancerListeners(m, i, env.first, env.strict)
    IN  Result(r.lbs, FALSE, EmptyString, r.err,
               <<Call("DeleteLoadBalancerListeners", r.err)>>)

removeListenersFromELBEveryPort(m, elbName, env) ==
    LET i == [LoadBalancerName |-> elbName, LoadBalancerPorts |-> <<6443, 8080>>]
        r == DeleteLoadBalancerListeners(m, i, env.first, env.strict)
    IN  Result(r.lbs, FALSE, EmptyString, r.err,
               <<Call("DeleteLoadBalancerListeners", r.err)>>)

removeListenersFromELB(m, elbName, env) ==
    LET i == [LoadBalancerName |-> elbName, LoadBalancerPorts |-> <<6443>>]
        r == DeleteLoadBalancerListeners(m, i, env.first, env.strict)
    IN  Result(r.lbs, FALSE, EmptyString, r.err,
               <<Call("DeleteLoadBalancerListeners", r.err)>>)

addListenersToELB(m, elbName, listeners, env) ==
    LET i == [Listeners |-> listeners, LoadBalancerName |-> elbName]
        r == CreateLoadBalancerListeners(m, i, env.first, env.strict)
    IN  Result(r.lbs, FALSE, EmptyString, r.err,
               <<Call("CreateLoadBalancerListeners", r.err)>>)

SetLoadBalancerPrivate(m, elbName, env) == removeListenersFromELB(m, elbName, env)

SetLoadBalancerPublic(m, elbName, listenerPort, env) ==
    addListenersToELB(m, elbName, <<Listener(listenerPort)>>, env)

\* Mutants: every element points at the loop variable, so all carry the last
\* id; the slice is declared without make, so it is nil when nothing is
\* appended.
InstanceSliceAliased(instanceIds) ==
    [isNil |-> FALSE,
     items |-> [k \in 1..Len(instanceIds) |->
                   [InstanceId |-> instanceIds[Len(instanceIds)]]]]

InstanceSliceNilWhenEmpty(instanceIds) ==
    [isNil |-> Len(instanceIds) = 0,
     items |-> [k \in 1..Len(instanceIds) |-> [InstanceId |-> instanceIds[k]]]]

\* make([]*elb.Instance, 0) followed by one append per id: never a nil slice.
InstanceSlice(instanceIds) ==
    [isNil |-> FALSE,
     items |-> [k \in 1..Len(instanceIds) |-> [InstanceId |-> instanceIds[k]]]]

AddLoadBalancerInstances(m, elbName, instanceIds, env) ==
    LET i == [Instances |-> InstanceSlice(instanceIds), LoadBalancerName |-> elbName]
        r == RegisterInstancesWithLoadBalancer(m, i, env.first)
    IN  Result(r.lbs, FALSE, EmptyString, r.err,
               <<Call("RegisterInstancesWithLoadBalancer", r.err)>>)

\* Mutant: the body copied from AddLoadBalancerInstances keeps its request.
RemoveInstancesFromLoadBalancerRegisters(m, elbName, instanceIds, env) ==
    LET i == [Instances |-> InstanceSlice(instanceIds), LoadBalancerName |-> elbName]
        r == RegisterInstancesWithLoadBalancer(m, i, env.first)
    IN  Result(r.lbs, FALSE, EmptyString, r.err,
               <<Call("DeregisterInstancesWithLoadBalancer", r.err)>>)

RemoveInstancesFromLoadBalancer(m, elbName, instanceIds, env) ==
    LET i == [Instances |-> InstanceSlice(instanceIds), LoadBalancerName |-> elbName]
        r == DeregisterInstancesWithLoadBalancer(m, i, env.first)
    IN  Result(r.lbs, FALSE, EmptyString, r.err,
               <<Call("DeregisterInstancesWithLoadBalancer", r.err)>>)

\* An error that is no awserr.Error falls out of the if block to the last
\* return, which indexes the descriptions of the output.
DoesELBExist(m, elbName, env) ==
    LET i == [LoadBalancerNames |-> <<elbName>>]
        res == DescribeLoadBalancers(m, i, env.first)
        c == <<Call("DescribeLoadBalancers", res.err)>>
    IN  IF res.err # Nil /\ res.err.kind = "awserr"
        THEN IF res.err.code = ErrCodeAccessPointNotFoundException
             THEN Result(m, FALSE, EmptyString, Nil, c)
             ELSE Result(m, FALSE, EmptyString, res.err, c)
        ELSE IF Len(res.LoadBalancerDescriptions) = 0
             THEN Panic(m, c)
             ELSE Result(m, TRUE, res.LoadBalancerDescriptions[1].DNSName, Nil, c)

(***************************************************************************)
(* State machine                                                           *)
(***************************************************************************)
\* What the environment answers during one call: the fault of the first and
\* of the second request, and the strictness of the provider.
Env(first, second, strict) == [first |-> first, second |-> second, strict |-> strict]

NoCall ==
    [op |-> "none", name |-> "", port |-> 0, refs |-> <<>>, pre |-> <<>>,
     found |-> FALSE, dns |-> EmptyString, err |-> Nil, panic |-> FALSE,
     calls |-> <<>>, again |-> FALSE, toggles |-> <<>>]

Succeeded(c) == c.op # "none" /\ c.err = Nil /\ ~c.panic

\* A call that changed the exposure of the control-plane port with success.
IsToggle(c) ==
    /\ Succeeded(c)
    /\ \/ c.op = "SetPrivate"
       \/ c.op = "SetPublic" /\ c.port = ControlPlanePort

LastOf(s) == IF Len(s) = 0 THEN <<>> ELSE <<s[Len(s)]>>

\* The record of a call: its arguments, the account before it, what it
\* returned, whether it repeats the call before it (which succeeded), and
\* toggles: the successful exposure changes of the same load balancer made
\* by the calls right before it, the latest two at most.
Record(op, name, port, refs, r) ==
    [op |-> op, name |-> name, port |-> port, refs |-> refs, pre |-> lbs,
     found |-> r.found, dns |-> r.dns, err |-> r.err, panic |-> r.panic,
     calls |-> r.calls,
     again |-> /\ last.op = op /\ last.name = name
               /\ last.port = port /\ last.refs = refs
               /\ Succeeded(last),
     toggles |-> IF IsToggle(last) /\ last.name = name
                 THEN LastOf(last.toggles) \o <<last.op>>
                 ELSE <<>>]

\* A load balancer another tool left in the account, forwarding the
\* control-plane port to a different backend port.
ForeignLB ==
    [DNSName |-> DNSName("api-lb"), Subnets |-> <<"subnet-a", "subnet-b">>,
     Listeners |-> {[LoadBalancerPort |-> ControlPlanePort, InstancePort |-> 8080,
                     Protocol |-> "tcp", InstanceProtocol |-> "tcp"]},
     HealthCheck |-> <<>>, Instances |-> {}]

InitialAccounts == {<<>>, [n \in {"api-lb"} |-> ForeignLB]}

Init ==
    /\ lbs \in InitialAccounts
    /\ last = NoCall

Provision ==
    \E n \in Names, s \in SubnetLists, p \in Ports, f1 \in Faults, f2 \in Faults :
        LET r == CreateClassicELB(lbs, n, s, p, Env(f1, f2, FALSE))
        IN  /\ lbs' = r.lbs
            /\ last' = Record("Provision", n, p, <<>>, r)

SetPrivate ==
    \E n \in Names, f \in Faults, strict \in BOOLEAN :
        LET r == SetLoadBalancerPrivate(lbs, n, Env(f, Nil, strict))
        IN  /\ lbs' = r.lbs
            /\ last' = Record("SetPrivate", n, 0, <<>>, r)

SetPublic ==
    \E n \in Names, p \in Ports, f \in Faults, strict \in BOOLEAN :
        LET r == SetLoadBalancerPublic(lbs, n, p, Env(f, Nil, strict))
        IN  /\ lbs' = r.lbs
            /\ last' = Record("SetPublic", n, p, <<>>, r)

AddInstances ==
    \E n \in Names, ids \in RefLists, f \in Faults :
        LET r == AddLoadBalancerInstances(lbs, n, ids, Env(f, Nil, FALSE))
        IN  /\ lbs' = r.lbs
            /\ last' = Record("AddInstances", n, 0, ids, r)

RemoveInstances ==
    \E n \in Names, ids \in RefLists, f \in Faults :
        LET r == RemoveInstancesFromLoadBalancer(lbs, n, ids, Env(f, Nil, FALSE))
        IN  /\ lbs' = r.lbs
            /\ last' = Record("RemoveInstances", n, 0, ids, r)

Exists ==
    \E n \in Names, f \in Faults :
        LET r == DoesELBExist(lbs, n, Env(f, Nil, FALSE))
        IN  /\ lbs' = r.lbs
            /\ last' = Record("Exists", n, 0, <<>>, r)

Next ==
    \/ Provision
    \/ SetPrivate
    \/ SetPublic
    \/ AddInstances
    \/ RemoveInstances
    \/ Exists

Spec == Init /\ [][Next]_vars

(***************************************************************************)
(* Properties                                                              *)
(***************************************************************************)
NotFound == AwsErr(ErrCodeAccessPointNotFoundException)

\* No request of the call was answered with a transient fault.
NoFault(c) == \A k \in 1..Len(c.calls) : c.calls[k].err \notin TransientFaults

\* The call addressed a load balancer that was in the account.
OnExisting(c) == c.name \in DOMAIN c.pre

HasListenerOn(lb, port) == \E h \in lb.Listeners : h.LoadBalancerPort = port

\* What a call of DoesELBExist answered by the service itself would return now.
ExistsNow(name) == DoesELBExist(lbs, name, Env(Nil, Nil, FALSE))

\* The errors CreateClassicELB returns when the create request fails.
CreateFailures ==
    TransientFaults \cup {AwsErr(ErrCodeDuplicateAccessPointNameException)}

\* C1: DoesELBExist returns for every answer of the describe request, with
\* exactly three outcomes: (true, dnsName, nil) when the load balancer is
\* described, (false, "", nil) when the service reports not-found, and
\* (false, "", err) for every other error, whatever its kind.
ExistsThreeOutcomes ==
    last.op = "Exists" =>
        LET e == last.calls[1].err
        IN  /\ ~last.panic
            /\ e = Nil =>
                 /\ last.found /\ last.err = Nil
                 /\ last.dns = last.pre[last.name].DNSName
            /\ e = NotFound =>
                 ~last.found /\ last.dns = EmptyString /\ last.err = Nil
            /\ e \notin {Nil, NotFound} =>
                 ~last.found /\ last.dns = EmptyString /\ last.err = e

\* C2: when the create request succeeds and the health-check request fails,
\* CreateClassicELB returns an error that tells the failed health check from
\* a failed creation, the load balancer stays in the account and
\* DoesELBExist on the same name reports it present.
HealthCheckFailureIsTold ==
    (/\ last.op = "Provision"
     /\ Len(last.calls) = 2
     /\ last.calls[1].err = Nil
     /\ last.calls[2].err # Nil) =>
        /\ last.err # Nil
        /\ last.err \notin CreateFailures
        /\ last.name \in DOMAIN lbs
        /\ ExistsNow(last.name).found

\* C3: SetLoadBalancerPrivate on an existing load balancer whose 6443
\* listener is already absent returns nil (a listener-not-found answer of
\* the service is not returned as an error) and the listener is absent
\* afterwards.
SetPrivateIdempotent ==
    (/\ last.op = "SetPrivate"
     /\ OnExisting(last)
     /\ NoFault(last)
     /\ ~HasListenerOn(last.pre[last.name], ControlPlanePort)) =>
        /\ last.err = Nil
        /\ ~HasListenerOn(lbs[last.name], ControlPlanePort)

\* C4: SetLoadBalancerPublic(name, port) returns nil and changes nothing
\* when the listener port -> port over tcp is already there; it fails with
\* the duplicate-listener error and changes nothing when the frontend port
\* is taken by a different listener.
SetPublicIdenticalOrConflict ==
    (/\ last.op = "SetPublic"
     /\ OnExisting(last)
     /\ NoFault(last)
     /\ HasListenerOn(last.pre[last.name], last.port)) =>
        /\ lbs = last.pre
        /\ IF Listener(last.port) \in last.pre[last.name].Listeners
           THEN last.err = Nil
           ELSE last.err = AwsErr(ErrCodeDuplicateListenerException)

\* C5: AddLoadBalancerInstances on an existing load balancer registers every
\* given instance and returns nil; repeated with the same ids it returns nil
\* again and leaves the membership as the first call left it.
AddInstancesIdempotent ==
    (last.op = "AddInstances" /\ NoFault(last)) =>
        /\ OnExisting(last) =>
             /\ last.err = Nil
             /\ lbs[last.name].Instances =
                    last.pre[last.name].Instances \cup Range(last.refs)
        /\ last.again =>
             /\ last.err = Nil
             /\ lbs = last.pre
             /\ Range(last.refs) \subseteq lbs[last.name].Instances

AddInstancesTwice ==
    /\ last.op = "AddInstances"
    /\ last.again
    /\ last.err = Nil
    /\ Len(last.refs) = 2
    /\ Range(last.refs) # {}
    /\ lbs[last.name].Instances # Range(last.refs)

\* C6: RemoveInstancesFromLoadBalancer on an existing load balancer returns
\* nil, removes exactly the members that are among the given ids and leaves
\* everything else of the account as it was; ids that are no members change
\* nothing.
RemoveInstancesFrame ==
    (last.op = "RemoveInstances" /\ OnExisting(last) /\ NoFault(last)) =>
        /\ last.err = Nil
        /\ lbs = [last.pre EXCEPT ![last.name].Instances = @ \ Range(last.refs)]
        /\ Range(last.refs) \cap last.pre[last.name].Instances = {} =>
             lbs = last.pre

RemoveAbsentMember ==
    /\ last.op = "RemoveInstances"
    /\ last.err = Nil
    /\ Len(last.refs) = 2
    /\ \E x \in Range(last.refs) : x \notin last.pre[last.name].Instances
    /\ \E x \in Range(last.refs) : x \in last.pre[last.name].Instances
    /\ lbs[last.name].Instances = {}

\* C7: after SetLoadBalancerPublic(name, 6443), SetLoadBalancerPrivate(name)
\* returns nil and leaves the load balancer in the account without its 6443
\* listener, and DoesELBExist(name) then returns (true, dnsName, nil);
\* SetLoadBalancerPrivate changes nothing but the listeners, and
\* SetLoadBalancerPublic(name, 6443) after it puts the listener back.
PublicPrivateExists ==
    /\ (/\ last.op = "SetPrivate" /\ NoFault(last)
        /\ LastOf(last.toggles) = <<"SetPublic">>) =>
            /\ last.err = Nil
            /\ last.name \in DOMAIN lbs
            /\ ~HasListenerOn(lbs[last.name], ControlPlanePort)
    /\ (/\ last.op = "Exists" /\ NoFault(last)
        /\ last.toggles = <<"SetPublic", "SetPrivate">>) =>
            /\ ~last.panic /\ last.found /\ last.err = Nil
            /\ last.dns = lbs[last.name].DNSName
            /\ ~HasListenerOn(lbs[last.name], ControlPlanePort)
    /\ last.op = "SetPrivate" =>
            /\ DOMAIN lbs = DOMAIN last.pre
            /\ \A n \in DOMAIN lbs :
                   lbs[n] = [last.pre[n] EXCEPT !.Listeners = lbs[n].Listeners]
    /\ (/\ last.op = "SetPublic" /\ last.port = ControlPlanePort /\ NoFault(last)
        /\ LastOf(last.toggles) = <<"SetPrivate">>) =>
            /\ last.err = Nil
            /\ Listener(ControlPlanePort) \in lbs[last.name].Listeners

PublicPrivateThenExists ==
    /\ last.op = "Exists"
    /\ last.toggles = <<"SetPublic", "SetPrivate">>
    /\ last.found
    /\ ~HasListenerOn(lbs[last.name], ControlPlanePort)

\* C8: AddLoadBalancerInstances and RemoveInstancesFromLoadBalancer with an
\* empty list of ids on an existing load balancer return nil and leave the
\* account unchanged.
EmptyRefsNoOp ==
    (/\ last.op \in {"AddInstances", "RemoveInstances"}
     /\ last.refs = <<>>
     /\ OnExisting(last)
     /\ NoFault(last)) =>
        /\ last.err = Nil
        /\ lbs = last.pre

EmptyRefsOnMembers ==
    /\ last.op = "RemoveInstances"
    /\ last.refs = <<>>
    /\ last.again
    /\ last.err = Nil
    /\ lbs[last.name].Instances # {}

\* C9: CreateClassicELB issues the health-check request only after the
\* create request succeeded; when the create request fails it issues nothing
\* else, leaves the account as it was and returns "" with that error.  Every
\* method issues each remote request at most once and stops at the first
\* failed one, whose error it returns (a not-found answer to DoesELBExist
\* being no failure).
NoRetriesFirstFailureReturned ==
    /\ last.op = "Provision" =>
         /\ Len(last.calls) \in {1, 2}
         /\ last.calls[1].method = "CreateLoadBalancer"
         /\ Len(last.calls) = 2 =>
              /\ last.calls[1].err = Nil
              /\ last.calls[2].method = "ConfigureHealthCheck"
         /\ last.calls[1].err # Nil =>
              /\ Len(last.calls) = 1
              /\ lbs = last.pre
              /\ last.dns = EmptyString
              /\ last.err = last.calls[1].err
    /\ \A j, k \in 1..Len(last.calls) :
         last.calls[j].method = last.calls[k].method => j = k
    /\ \A k \in 1..Len(last.calls) :
         (/\ last.calls[k].err # Nil
          /\ ~(last.op = "Exists" /\ last.calls[k].err = NotFound)) =>
             /\ k = Len(last.calls)
             /\ ~last.panic
             /\ last.err = last.calls[k].err

====
